---- MODULE Spec2Model ----
(***************************************************************************)
(* Gemini File Search plugin: the API client (listFileSearchStores,        *)
(* queryFileSearch) and the gemini_file_search tool's execute handler.     *)
(*                                                                         *)
(* Text is modelled as a sequence of one-character strings so that trim,   *)
(* startsWith, concatenation and encodeURIComponent are computed the way   *)
(* the code computes them.  One call runs at a time; an async function is  *)
(* split into steps at its await points.                                   *)
(***************************************************************************)
EXTENDS Integers, Sequences, FiniteSets, TLC

\* ------------------------------------------------------------------ bounds
MaxStoresLen == 7
MaxNameParts == 3
MaxListed == 3
MaxParts == 2
MaxChunks == 2

\* ------------------------------------------------------- program constants
MAX_STORES_HARD_LIMIT == 5
DEFAULT_TIMEOUT_MS == 30000
DEFAULT_MODEL ==
    <<"g","e","m","i","n","i","-","2",".","5","-","f","l","a","s","h">>
STORE_PREFIX ==
    <<"f","i","l","e","S","e","a","r","c","h","S","t","o","r","e","s","/">>
API_KEY_HEADER == "x-goog-api-key"

\* ------------------------------------------------------------ text helpers
WhiteSpace == {" "}

RECURSIVE TrimStart(_)
TrimStart(s) ==
    IF s # <<>> /\ Head(s) \in WhiteSpace THEN TrimStart(Tail(s)) ELSE s

RECURSIVE TrimEnd(_)
TrimEnd(s) ==
    IF s # <<>> /\ s[Len(s)] \in WhiteSpace
    THEN TrimEnd(SubSeq(s, 1, Len(s) - 1)) ELSE s

\* String.prototype.trim
Trim(s) == TrimEnd(TrimStart(s))

\* String.prototype.startsWith
StartsWith(s, p) == Len(s) >= Len(p) /\ SubSeq(s, 1, Len(p)) = p

\* encodeURIComponent on the characters the model uses: a space and a slash
\* are escaped, the unreserved characters are kept.
EncodeChar(c) ==
    IF c = " " THEN <<"%","2","0">>
    ELSE IF c = "/" THEN <<"%","2","F">>
    ELSE <<c>>

RECURSIVE encodeURIComponent(_)
encodeURIComponent(s) ==
    IF s = <<>> THEN <<>> ELSE EncodeChar(Head(s)) \o encodeURIComponent(Tail(s))

\* Optional values: undefined, or a defined value.
Undefined == [def |-> FALSE, val |-> <<>>]
Str(s) == [def |-> TRUE, val |-> s]
NoNum == [def |-> FALSE, val |-> 0]
Num(n) == [def |-> TRUE, val |-> n]

\* x?.trim() || fallback   (an undefined or blank x is falsy)
TrimOr(x, fallback) ==
    IF x.def /\ Trim(x.val) # <<>> THEN Trim(x.val) ELSE fallback

\* x ?? fallback
Coalesce(x, fallback) == IF x.def THEN x.val ELSE fallback

\* Math.min
Min(a, b) == IF a <= b THEN a ELSE b
Max(a, b) == IF a >= b THEN a ELSE b

\* Array.prototype.slice(0, end): a negative end counts from the back.
SliceTo(a, end) ==
    LET final == IF end < 0 THEN Max(Len(a) + end, 0) ELSE Min(end, Len(a))
    IN  SubSeq(a, 1, final)


\* ------------------------------------------------ gemini-client.ts helpers
\* buildHeaders: an object literal with the two fixed entries followed by a
\* spread of the host's provider headers; a later entry replaces an earlier
\* one of the same name, and spreading undefined adds nothing.
buildHeaders(apiKey, providerHeaders) ==
    LET base == [k \in {"Content-Type", API_KEY_HEADER} |->
                    IF k = API_KEY_HEADER THEN apiKey ELSE <<"application/json">>]
        extra == IF providerHeaders.def THEN providerHeaders.val
                 ELSE [k \in {} |-> <<>>]
    IN  [k \in DOMAIN base \cup DOMAIN extra |->
            IF k \in DOMAIN extra THEN extra[k] ELSE base[k]]

\* withTimeout: a fresh AbortController and a pending timer of timeoutMs.
withTimeout(timeoutMs) == [state |-> "pending", ms |-> timeoutMs]

\* Faulty variant: the timer is never released.
clearNothing(t) == t

\* clear(): clearTimeout releases a pending timer and leaves a fired one alone.
clear(t) == IF t.state = "pending" THEN [t EXCEPT !.state = "cleared"] ELSE t

\* Faulty variant: the name is not trimmed before the prefix test.
normalizeStoreNameNoTrim(name) ==
    IF StartsWith(name, STORE_PREFIX) THEN name ELSE STORE_PREFIX \o name

normalizeStoreName(name) ==
    LET trimmed == Trim(name)
    IN  IF StartsWith(trimmed, STORE_PREFIX) THEN trimmed
        ELSE STORE_PREFIX \o trimmed

\* The effective configuration computed at the top of queryFileSearch.
EffectiveTimeout(pluginCfg) == Coalesce(pluginCfg.timeoutMs, DEFAULT_TIMEOUT_MS)

\* Faulty variant: the plugin configuration's default wins over the per-call model.
EffectiveModelConfigFirst(model, pluginCfg) ==
    TrimOr(pluginCfg.defaultModel, TrimOr(model, DEFAULT_MODEL))

EffectiveModel(model, pluginCfg) ==
    TrimOr(model, TrimOr(pluginCfg.defaultModel, DEFAULT_MODEL))

EffectiveMaxStores(pluginCfg) ==
    Min(Coalesce(pluginCfg.maxStoresPerQuery, MAX_STORES_HARD_LIMIT),
        MAX_STORES_HARD_LIMIT)

\* params.stores.slice(0, maxStores).map(normalizeStoreName)
StoreNames(stores, pluginCfg) ==
    LET kept == SliceTo(stores, EffectiveMaxStores(pluginCfg))
    IN  [i \in 1..Len(kept) |-> normalizeStoreName(kept[i])]

\* The two requests the client sends.
ListRequest(apiKey, headers) ==
    [method |-> "GET", path |-> "fileSearchStores", model |-> <<>>,
     key |-> encodeURIComponent(apiKey), headers |-> headers,
     text |-> <<>>, fileSearchStoreNames |-> <<>>]

QueryRequest(apiKey, headers, model, query, storeNames) ==
    [method |-> "POST", path |-> "generateContent",
     model |-> encodeURIComponent(model),
     key |-> encodeURIComponent(apiKey), headers |-> headers,
     text |-> query, fileSearchStoreNames |-> storeNames]

\* Response.ok
IsOk(status) == status >= 200 /\ status < 300

\* Faulty variant: the status is left out of the message.
ApiErrorMessageNoStatus(op, status, body) ==
    << (IF op = "list" THEN "Gemini listFileSearchStores failed: "
        ELSE "Gemini generateContent failed: ") >> \o body

\* The message of the Error thrown on a non-success status.
ApiErrorMessage(op, status, body) ==
    << (IF op = "list" THEN "Gemini listFileSearchStores failed: "
        ELSE "Gemini generateContent failed: "),
       ToString(status), " " >> \o body

\* ------------------------------------------- queryFileSearch: the response
NoValue == [def |-> FALSE, val |-> <<>>]
Some(v) == [def |-> TRUE, val |-> v]

\* data.candidates?.[0]
FirstCandidate(data) ==
    IF data.candidates.def /\ Len(data.candidates.val) >= 1
    THEN Some(data.candidates.val[1]) ELSE NoValue

\* parts.map((p) => p.text ?? "").join("")
RECURSIVE JoinText(_)
JoinText(parts) ==
    IF parts = <<>> THEN <<>>
    ELSE Coalesce(Head(parts).text, <<>>) \o JoinText(Tail(parts))

\* Faulty variant: the joined text is not trimmed.
ExtractAnswerNoTrim(data) ==
    LET candidate == FirstCandidate(data)
    IN  IF candidate.def /\ candidate.val.parts.def
        THEN JoinText(candidate.val.parts.val) ELSE <<>>

ExtractAnswer(data) ==
    LET candidate == FirstCandidate(data)
    IN  IF candidate.def /\ candidate.val.parts.def
        THEN Trim(JoinText(candidate.val.parts.val)) ELSE <<>>

\* ctx?.uri || ctx?.title
Truthy(x) == x.def /\ x.val # <<>>

RECURSIVE SourcesOf(_)
SourcesOf(chunks) ==
    IF chunks = <<>> THEN <<>>
    ELSE LET ctx == Head(chunks).retrievedContext
         IN  IF ctx.def /\ (Truthy(ctx.val.uri) \/ Truthy(ctx.val.title))
             THEN << [title |-> Coalesce(ctx.val.title,
                                         Coalesce(ctx.val.uri, <<>>)),
                      uri |-> Coalesce(ctx.val.uri, <<>>)] >>
                  \o SourcesOf(Tail(chunks))
             ELSE SourcesOf(Tail(chunks))

ExtractSources(data) ==
    LET candidate == FirstCandidate(data)
    IN  SourcesOf(IF candidate.def
                  THEN Coalesce(candidate.val.groundingChunks, <<>>)
                  ELSE <<>>)

\* Faulty variant: the stores come back in the opposite order.
ExtractStoresReversed(data) ==
    LET stores == Coalesce(data.fileSearchStores, <<>>)
    IN  [i \in 1..Len(stores) |-> stores[Len(stores) + 1 - i]]

\* data.fileSearchStores ?? []
ExtractStores(data) == Coalesce(data.fileSearchStores, <<>>)

\* ------------------------------------------------- query-tool.ts: execute
NoAnswerLine == <<"No answer was generated for this query.">>

RECURSIVE SourceLines(_, _)
SourceLines(sources, i) ==
    IF i > Len(sources) THEN <<>>
    ELSE LET s == sources[i]
             label == IF s.title # <<>> THEN s.title
                      ELSE IF s.uri # <<>> THEN s.uri ELSE <<"unknown">>
             line == IF s.uri # <<>>
                     THEN <<ToString(i), ". [">> \o label \o <<"](">>
                          \o s.uri \o <<")">>
                     ELSE <<ToString(i), ". ">> \o label
         IN  <<line>> \o SourceLines(sources, i + 1)

\* The lines joined into the tool's text content.
ToolContent(answer, sources) ==
    << (IF answer # <<>> THEN answer ELSE NoAnswerLine) >>
    \o (IF Len(sources) > 0
        THEN << <<>>, <<"**Sources:**">> >> \o SourceLines(sources, 1)
        ELSE <<>>)

\* ------------------------------------------------------------------ inputs
\* Store identifiers: short ids, ids padded with whitespace, full resource
\* names; all distinct, so that order and truncation are observable.
StoreAt(i) ==
    IF i % 3 = 1 THEN <<"s", ToString(i)>>
    ELSE IF i % 3 = 2 THEN <<" ", "s", ToString(i), " ">>
    ELSE STORE_PREFIX \o <<"s", ToString(i)>>

StoreInputs == { [i \in 1..n |-> StoreAt(i)] : n \in 0..MaxStoresLen }

QueryInputs == { <<>>, <<" ">>, <<" ", "q", " ">> }

ModelInputs == { Undefined, Str(<<" ">>), Str(<<" ", "m", "/", "1">>) }

DefaultModelInputs == { Undefined, Str(<<" ">>), Str(<<"m", "2", " ">>) }

MaxStoresInputs ==
    { NoNum } \cup { Num(n) : n \in { -1, 0, 2, MAX_STORES_HARD_LIMIT + 1 } }

TimeoutInputs == { NoNum, Num(1000) }

PluginCfgInputs ==
    [defaultModel : DefaultModelInputs, maxStoresPerQuery : MaxStoresInputs,
     timeoutMs : TimeoutInputs]

HostKey == <<"h", "k">>

\* config?.models?.providers?.google?.headers
ProviderHeaderInputs ==
    { NoValue,
      Some([k \in {"X-Custom"} |-> <<"v">>]),
      Some([k \in {API_KEY_HEADER} |-> HostKey]) }

\* params.query / params.stores as the tool receives them: Undefined stands
\* for a value of the wrong type.
RawQueryInputs == {Undefined} \cup {Str(x) : x \in QueryInputs}

RawStoreInputs == {NoValue} \cup {Some(x) : x \in StoreInputs}

\* The keys the credential resolver may return.
ApiKeys == { <<"k", "/", "1">>, <<"k", "2">> }

\* What the provider may answer.
Statuses == { 200, 429, 500 }

ErrorBodies == { <<>>, <<"{", "quota", "}">> }

ListedPool ==
    { [name |-> "fileSearchStores/abc", displayName |-> "My Docs"],
      [name |-> "fileSearchStores/def", displayName |-> "Guide"],
      [name |-> "fileSearchStores/ghi", displayName |-> "Notes"] }

ListBodies ==
    { [fileSearchStores |-> NoValue] } \cup
    { [fileSearchStores |-> Some(q)] :
        q \in UNION { [1..n -> ListedPool] : n \in 0..MaxListed } }

Chunk(uri, title) ==
    [retrievedContext |-> Some([uri |-> uri, title |-> title])]

RichCandidate ==
    [parts |-> Some(<< [text |-> Str(<<" ", "4">>)], [text |-> Undefined],
                       [text |-> Str(<<"2", ".", " ">>)] >>),
     groundingChunks |-> Some(<<
         Chunk(Str(<<"u", "1">>), Str(<<"T", "1">>)),
         [retrievedContext |-> NoValue],
         Chunk(Str(<<"u", "2">>), Undefined),
         Chunk(Undefined, Undefined),
         Chunk(Undefined, Str(<<"T", "3">>)),
         Chunk(Str(<<>>), Str(<<>>)),
         Chunk(Str(<<"u", "4">>), Str(<<>>)) >>)]

BareCandidate == [parts |-> NoValue, groundingChunks |-> NoValue]

QueryBodies ==
    { [candidates |-> NoValue],
      [candidates |-> Some(<<>>)],
      [candidates |-> Some(<<RichCandidate>>)],
      [candidates |-> Some(<<BareCandidate, RichCandidate>>)] }

\* ------------------------------------------------------------------- state
VARIABLES
    pc,          \* where the running call is suspended
    call,        \* the arguments of the running call
    apiKey,      \* the key resolved for this call
    requests,    \* the HTTP requests this call has issued, in order
    timer,       \* the deadline timer of withTimeout
    aborted,     \* the AbortController's signal
    res,         \* the status of the response fetch resolved with (0: none)
    payload,     \* the text res.text() resolved with
    data,        \* the parsed body res.json() resolved with
    outcome,     \* how listFileSearchStores / queryFileSearch settled
    toolOutcome  \* how the tool's execute settled

vars ==
    <<pc, call, apiKey, requests, timer, aborted, res, payload, data, outcome,
      toolOutcome>>

NoCall ==
    [op |-> "none", viaTool |-> FALSE, query |-> <<>>, stores |-> <<>>,
     model |-> Undefined, rawModel |-> Undefined, providerHeaders |-> NoValue,
     pluginCfg |-> [defaultModel |-> Undefined, maxStoresPerQuery |-> NoNum,
                    timeoutMs |-> NoNum]]

NoTimer == [state |-> "none", ms |-> 0]

NoOutcome ==
    [kind |-> "none", err |-> "", msg |-> <<>>, stores |-> <<>>,
     answer |-> <<>>, sources |-> <<>>]

Failure(err, msg) == [NoOutcome EXCEPT !.kind = "error", !.err = err, !.msg = msg]

NoToolOutcome == [kind |-> "none", err |-> "", msg |-> <<>>, content |-> <<>>]

InFlight == {"fetch", "text", "json"}

Init ==
    /\ pc = "idle"
    /\ call = NoCall
    /\ apiKey = <<>>
    /\ requests = <<>>
    /\ timer = NoTimer
    /\ aborted = FALSE
    /\ res = 0
    /\ payload = NoValue
    /\ data = NoValue
    /\ outcome = NoOutcome
    /\ toolOutcome = NoToolOutcome

\* ----------------------------------------------------------------- actions
\* The tool's execute resumes when queryFileSearch settles: a failure
\* propagates unchanged, a result is formatted into the text content.
ToolSettled(out) ==
    IF out.kind = "error"
    THEN [NoToolOutcome EXCEPT !.kind = "error", !.err = out.err, !.msg = out.msg]
    ELSE [NoToolOutcome EXCEPT !.kind = "ok",
                               !.content = ToolContent(out.answer, out.sources)]

\* The client function settles with `out`.
Settle(out) ==
    /\ pc' = "done"
    /\ outcome' = out
    /\ toolOutcome' = IF call.viaTool THEN ToolSettled(out) ELSE toolOutcome

\* The validation at the top of the tool's execute: the failure it throws,
\* or NoToolOutcome when the parameters pass.  A parameter of the wrong
\* type (Undefined here) counts as "" / [].
ToolValidate(rawQuery, rawStores) ==
    LET query == IF rawQuery.def THEN Trim(rawQuery.val) ELSE <<>>
        stores == IF rawStores.def THEN rawStores.val ELSE <<>>
    IN  IF query = <<>>
        THEN [NoToolOutcome EXCEPT !.kind = "error", !.err = "Error",
                                   !.msg = <<"query is required">>]
        ELSE IF Len(stores) = 0
        THEN [NoToolOutcome EXCEPT !.kind = "error", !.err = "Error",
                                   !.msg = <<"at least one store is required">>]
        ELSE NoToolOutcome

\* params.model.trim() || undefined
ToolModel(rawModel) ==
    IF rawModel.def /\ Trim(rawModel.val) # <<>> THEN Str(Trim(rawModel.val))
    ELSE Undefined

\* Faulty variant: the empty-list check is dropped.
NoStoreNamesUnchecked(storeNames) == FALSE

\* storeNames.length === 0
NoStoreNames(storeNames) == Len(storeNames) = 0

\* listFileSearchStores(params), up to its first await.
CallList ==
    /\ pc = "idle"
    /\ \E providerHeaders \in ProviderHeaderInputs, pluginCfg \in PluginCfgInputs :
          call' = [NoCall EXCEPT !.op = "list",
                                 !.providerHeaders = providerHeaders,
                                 !.pluginCfg = pluginCfg]
    /\ pc' = "resolveApiKey"
    /\ UNCHANGED <<apiKey, requests, timer, aborted, res, payload, data, outcome,
                   toolOutcome>>

\* queryFileSearch(params) called directly, up to its first await.
CallQuery ==
    /\ pc = "idle"
    /\ \E query \in QueryInputs, stores \in StoreInputs, model \in ModelInputs,
          providerHeaders \in ProviderHeaderInputs, pluginCfg \in PluginCfgInputs :
          call' = [op |-> "query", viaTool |-> FALSE, query |-> query,
                   stores |-> stores, model |-> model, rawModel |-> model,
                   providerHeaders |-> providerHeaders, pluginCfg |-> pluginCfg]
    /\ pc' = "resolveApiKey"
    /\ UNCHANGED <<apiKey, requests, timer, aborted, res, payload, data, outcome,
                   toolOutcome>>

\* The tool's execute(_id, params): validation, then queryFileSearch.
ToolExecute ==
    /\ pc = "idle"
    /\ \E rawQuery \in RawQueryInputs, rawStores \in RawStoreInputs,
          rawModel \in ModelInputs,
          providerHeaders \in ProviderHeaderInputs, pluginCfg \in PluginCfgInputs :
          LET invalid == ToolValidate(rawQuery, rawStores)
          IN  IF invalid.kind = "error"
              THEN /\ call' = [NoCall EXCEPT !.op = "tool", !.viaTool = TRUE,
                                  !.query = Coalesce(rawQuery, <<>>),
                                  !.stores = Coalesce(rawStores, <<>>),
                                  !.model = rawModel, !.rawModel = rawModel,
                                  !.providerHeaders = providerHeaders,
                                  !.pluginCfg = pluginCfg]
                   /\ pc' = "done"
                   /\ toolOutcome' = invalid
              ELSE /\ call' = [op |-> "query", viaTool |-> TRUE,
                               query |-> Trim(rawQuery.val),
                               stores |-> rawStores.val,
                               model |-> ToolModel(rawModel),
                               rawModel |-> rawModel,
                               providerHeaders |-> providerHeaders,
                               pluginCfg |-> pluginCfg]
                   /\ pc' = "resolveApiKey"
                   /\ UNCHANGED toolOutcome
    /\ UNCHANGED <<apiKey, requests, timer, aborted, res, payload, data, outcome>>

ResolveFailures ==
    { Failure("Error", <<"Internal error: model-auth not available">>),
      Failure("ResolverError", <<"no credential for google">>) }

\* await resolveApiKey(...) rejects: model-auth cannot be loaded, or the
\* resolver has no usable credential.  The failure propagates.
ResolveApiKeyFails ==
    /\ pc = "resolveApiKey"
    /\ \E failure \in ResolveFailures : Settle(failure)
    /\ UNCHANGED <<call, apiKey, requests, timer, aborted, res, payload, data>>

\* The synchronous code between resolveApiKey and fetch, for the key the
\* resolver returned.
AfterResolve(key) ==
    /\ apiKey' = key
    /\ LET headers == buildHeaders(key, call.providerHeaders)
           timeoutMs == EffectiveTimeout(call.pluginCfg)
       IN  IF call.op = "list"
           THEN /\ requests' = Append(requests, ListRequest(key, headers))
                /\ timer' = withTimeout(timeoutMs)
                /\ pc' = "fetch"
                /\ UNCHANGED <<outcome, toolOutcome>>
           ELSE LET model == EffectiveModel(call.model, call.pluginCfg)
                    storeNames == StoreNames(call.stores, call.pluginCfg)
                IN  IF NoStoreNames(storeNames)
                    THEN /\ Settle(Failure("Error",
                                   <<"At least one store name is required">>))
                         /\ UNCHANGED <<requests, timer>>
                    ELSE /\ requests' = Append(requests,
                                QueryRequest(key, headers, model, call.query,
                                             storeNames))
                         /\ timer' = withTimeout(timeoutMs)
                         /\ pc' = "fetch"
                         /\ UNCHANGED <<outcome, toolOutcome>>

\* await resolveApiKey(...) returns a key; the function runs on to its
\* fetch (or, in queryFileSearch, to the throw for an empty store list).
ResolveApiKeyReturns ==
    /\ pc = "resolveApiKey"
    /\ \E key \in ApiKeys : AfterResolve(key)
    /\ UNCHANGED <<call, aborted, res, payload, data>>

\* Faulty variant: the timer callback does not abort the controller.
onTimeoutNoAbort(signalAborted) == signalAborted

\* The timer callback: () => controller.abort().
onTimeout(signalAborted) == TRUE

\* The deadline passes while the timer is pending (it is pending only
\* between withTimeout and clear, i.e. while the HTTP operation is awaited).
DeadlineFires ==
    /\ timer.state = "pending"
    /\ pc \in InFlight
    /\ timer' = [timer EXCEPT !.state = "fired"]
    /\ aborted' = onTimeout(aborted)
    /\ UNCHANGED <<pc, call, apiKey, requests, res, payload, data, outcome,
                   toolOutcome>>

\* An aborted signal rejects the pending fetch / body read with AbortError;
\* the finally block runs clear().
AbortRejects ==
    /\ pc \in InFlight
    /\ aborted
    /\ Settle(Failure("AbortError", <<"This operation was aborted">>))
    /\ timer' = clear(timer)
    /\ UNCHANGED <<call, apiKey, requests, aborted, res, payload, data>>

\* await fetch(...) resolves with a response of this status.
FetchResolves ==
    /\ pc = "fetch"
    /\ ~aborted
    /\ \E status \in Statuses :
          /\ res' = status
          /\ pc' = IF IsOk(status) THEN "json" ELSE "text"
    /\ UNCHANGED <<call, apiKey, requests, timer, aborted, payload, data, outcome,
                   toolOutcome>>

\* await fetch(...) rejects: a network failure.
FetchRejects ==
    /\ pc = "fetch"
    /\ ~aborted
    /\ Settle(Failure("TypeError", <<"fetch failed">>))
    /\ timer' = clear(timer)
    /\ UNCHANGED <<call, apiKey, requests, aborted, res, payload, data>>

\* await res.text() resolves: throw the API error.
TextResolves ==
    /\ pc = "text"
    /\ ~aborted
    /\ \E body \in ErrorBodies :
          /\ payload' = Some(body)
          /\ Settle(Failure("Error", ApiErrorMessage(call.op, res, body)))
    /\ timer' = clear(timer)
    /\ UNCHANGED <<call, apiKey, requests, aborted, res, data>>

\* await res.text() rejects: the body could not be read.
TextRejects ==
    /\ pc = "text"
    /\ ~aborted
    /\ Settle(Failure("TypeError", <<"terminated">>))
    /\ timer' = clear(timer)
    /\ UNCHANGED <<call, apiKey, requests, aborted, res, payload, data>>

\* await res.json() resolves with the parsed body: build the result.
JsonResolves ==
    /\ pc = "json"
    /\ ~aborted
    /\ \E parsed \in (IF call.op = "list" THEN ListBodies ELSE QueryBodies) :
          /\ data' = Some(parsed)
          /\ Settle(IF call.op = "list"
                    THEN [NoOutcome EXCEPT !.kind = "ok",
                                           !.stores = ExtractStores(parsed)]
                    ELSE [NoOutcome EXCEPT !.kind = "ok",
                                           !.answer = ExtractAnswer(parsed),
                                           !.sources = ExtractSources(parsed)])
    /\ timer' = clear(timer)
    /\ UNCHANGED <<call, apiKey, requests, aborted, res, payload>>

\* await res.json() rejects: the body could not be read or is not JSON.
JsonRejects ==
    /\ pc = "json"
    /\ ~aborted
    /\ \E err \in {"SyntaxError", "TypeError"} : Settle(Failure(err, <<"body">>))
    /\ timer' = clear(timer)
    /\ UNCHANGED <<call, apiKey, requests, aborted, res, payload, data>>

Next ==
    \/ CallList
    \/ CallQuery
    \/ ToolExecute
    \/ ResolveApiKeyFails
    \/ ResolveApiKeyReturns
    \/ DeadlineFires
    \/ AbortRejects
    \/ FetchResolves
    \/ FetchRejects
    \/ TextResolves
    \/ TextRejects
    \/ JsonResolves
    \/ JsonRejects

Spec == Init /\ [][Next]_vars

\* ------------------------------------------- store-name normalization runs
\* Names built from up to MaxNameParts pieces: whitespace, a letter, the
\* canonical prefix.
RECURSIVE NamesOf(_)
NamesOf(n) ==
    IF n = 0 THEN { <<>> }
    ELSE LET shorter == NamesOf(n - 1)
         IN  shorter \cup { piece \o rest :
                              piece \in { <<" ">>, <<"a">>, STORE_PREFIX },
                              rest \in shorter }

NameInputs == NamesOf(MaxNameParts)

\* queryFileSearch called directly with one store name out of NameInputs.
CallQueryNamed ==
    /\ pc = "idle"
    /\ \E name \in NameInputs :
          call' = [NoCall EXCEPT !.op = "query", !.query = <<"q">>,
                                 !.stores = <<name>>]
    /\ pc' = "resolveApiKey"
    /\ UNCHANGED <<apiKey, requests, timer, aborted, res, payload, data, outcome,
                   toolOutcome>>

NextNames ==
    \/ CallQueryNamed
    \/ ResolveApiKeyFails
    \/ ResolveApiKeyReturns
    \/ DeadlineFires
    \/ AbortRejects
    \/ FetchResolves
    \/ FetchRejects
    \/ TextResolves
    \/ TextRejects
    \/ JsonResolves
    \/ JsonRejects

SpecNames == Init /\ [][NextNames]_vars

\* ------------------------------------------------------------ fair runs
\* The event loop runs the continuation of a rejected await: once the signal
\* is aborted, the pending fetch / body read rejects and the call resumes.
SpecFair == Spec /\ WF_vars(AbortRejects)

\* ------------------------------------------------------------------ claims
Done == pc = "done"

\* The tool received a blank query, or no stores.
ToolBlankQuery == call.viaTool /\ Trim(call.query) = <<>>
ToolNoStores == call.viaTool /\ Len(call.stores) = 0

\* queryFileSearch was called directly with an empty store list.
DirectNoStores == call.op = "query" /\ ~call.viaTool /\ Len(call.stores) = 0

ToolValidationFailure ==
    /\ toolOutcome.kind = "error"
    /\ toolOutcome.err = "Error"
    /\ toolOutcome.msg = IF Trim(call.query) = <<>>
                         THEN <<"query is required">>
                         ELSE <<"at least one store is required">>

StoreValidationFailure ==
    outcome = Failure("Error", <<"At least one store name is required">>)

\* C1 as stated: a call with a blank query (tool) or an empty store list
\* (tool, or queryFileSearch directly) issues no HTTP request and ends with
\* the validation failure naming the field, whatever the resolver does.
C1_Original ==
    /\ (ToolBlankQuery \/ ToolNoStores) =>
          /\ requests = <<>>
          /\ Done => ToolValidationFailure
    /\ DirectNoStores =>
          /\ requests = <<>>
          /\ Done => StoreValidationFailure

\* C1 amended: the tool layer fails with the validation failure naming the
\* field and issues no HTTP request; queryFileSearch called directly with an
\* empty store list issues no HTTP request either and fails, with the store
\* validation failure when the credential resolver returned a key and with
\* the resolver's own failure when it did not.
C1_ValidationBeforeNetwork ==
    /\ (ToolBlankQuery \/ ToolNoStores) =>
          /\ requests = <<>>
          /\ apiKey = <<>>
          /\ Done => ToolValidationFailure
    /\ DirectNoStores =>
          /\ requests = <<>>
          /\ timer = NoTimer
          /\ Done => /\ outcome.kind = "error"
                     /\ apiKey # <<>> => StoreValidationFailure
                     /\ apiKey = <<>> => outcome \in ResolveFailures

C1_Witness ==
    /\ Done
    /\ DirectNoStores
    /\ apiKey # <<>>
    /\ StoreValidationFailure
    /\ requests = <<>>

\* C2 as stated: the effective cap never exceeds the hard limit, a configured
\* value above the limit gives the limit, and no request names more than
\* MAX_STORES_HARD_LIMIT stores.
C2_HardLimit ==
    /\ call.op = "query" =>
          /\ EffectiveMaxStores(call.pluginCfg) <= MAX_STORES_HARD_LIMIT
          /\ (call.pluginCfg.maxStoresPerQuery.def
              /\ call.pluginCfg.maxStoresPerQuery.val > MAX_STORES_HARD_LIMIT)
                => EffectiveMaxStores(call.pluginCfg) = MAX_STORES_HARD_LIMIT
    /\ \A i \in 1..Len(requests) :
          Len(requests[i].fileSearchStoreNames) <= MAX_STORES_HARD_LIMIT

\* C3 as stated: when more stores are supplied than the effective cap, the
\* request names exactly cap stores, the normalized first cap entries in
\* order, and the truncation raises no error.
C3_Truncation ==
    LET cap == EffectiveMaxStores(call.pluginCfg)
    IN  (call.op = "query" /\ apiKey # <<>> /\ call.stores # <<>>
         /\ Len(call.stores) > cap) =>
          /\ ~StoreValidationFailure
          /\ Len(requests) = 1
          /\ Len(requests[1].fileSearchStoreNames) = cap
          /\ \A i \in 1..cap :
                requests[1].fileSearchStoreNames[i]
                    = normalizeStoreName(call.stores[i])

ContainsPrefix(s) ==
    \E k \in 0..(Len(s) - Len(STORE_PREFIX)) :
        SubSeq(s, k + 1, k + Len(STORE_PREFIX)) = STORE_PREFIX

\* C4 as stated: a name not containing the prefix becomes prefix + name, a
\* name containing the prefix is unchanged, and normalizing is idempotent.
C4_Original ==
    \A r \in 1..Len(requests) :
        \A i \in 1..Len(requests[r].fileSearchStoreNames) :
            LET s == call.stores[i]
                n == requests[r].fileSearchStoreNames[i]
            IN  /\ ~ContainsPrefix(s) => n = STORE_PREFIX \o s
                /\ ContainsPrefix(s) => n = s
                /\ normalizeStoreName(n) = n

\* C4 amended: the name is trimmed first; a trimmed name that does not start
\* with the prefix becomes prefix + trimmed name, one that starts with the
\* prefix is the trimmed name itself (so an already trimmed, already
\* prefixed name is unchanged), and normalizing is idempotent.
C4_Normalization ==
    \A r \in 1..Len(requests) :
        \A i \in 1..Len(requests[r].fileSearchStoreNames) :
            LET s == call.stores[i]
                n == requests[r].fileSearchStoreNames[i]
            IN  /\ ~StartsWith(Trim(s), STORE_PREFIX) => n = STORE_PREFIX \o Trim(s)
                /\ StartsWith(Trim(s), STORE_PREFIX) => n = Trim(s)
                /\ (StartsWith(s, STORE_PREFIX) /\ Trim(s) = s) => n = s
                /\ normalizeStoreName(n) = n

\* A padded name that holds the prefix after a letter was sent prefixed
\* again and trimmed.
C4_Witness ==
    /\ Len(requests) = 1
    /\ LET s == call.stores[1]
           n == requests[1].fileSearchStoreNames[1]
       IN  /\ ContainsPrefix(s)
           /\ Trim(s) # s
           /\ ~StartsWith(Trim(s), STORE_PREFIX)
           /\ n = STORE_PREFIX \o Trim(s)

\* C5 as stated: every request carries the freshly resolved key in its
\* x-goog-api-key header, whatever headers the host configured.
C5_FreshKeyHeader ==
    \A r \in 1..Len(requests) : requests[r].headers[API_KEY_HEADER] = apiKey

\* C6: a settled call never leaves its deadline timer pending: a call that
\* started a timer ends with the timer cleared or already fired, on every
\* exit path, and a call that settles before fetch never started one.
C6_TimerReleased ==
    Done =>
        /\ timer.state # "pending"
        /\ requests # <<>> => timer.state \in {"cleared", "fired"}
        /\ requests = <<>> => timer = NoTimer

\* The body of an error response could not be read; the timer was cleared.
C6_Witness ==
    /\ Done
    /\ res = 429
    /\ outcome.err = "TypeError"
    /\ timer.state = "cleared"

\* C7: a deadline that fires while the HTTP operation is in flight aborts
\* the signal, and the call then settles with the AbortError failure, which
\* no other exit path produces; it returns no result and is not left pending.
C7_DeadlineAborts ==
    /\ [](timer.state = "fired" => aborted)
    /\ []((Done /\ timer.state = "fired") =>
            /\ outcome = Failure("AbortError", <<"This operation was aborted">>)
            /\ call.viaTool => toolOutcome.err = "AbortError")
    /\ []((Done /\ outcome.err = "AbortError") => timer.state = "fired")
    /\ ((timer.state = "fired" /\ pc \in InFlight)
            ~> (Done /\ outcome.kind = "error" /\ outcome.err = "AbortError"))

\* The deadline fired during the body read of a successful response.
C7_Witness ==
    /\ Done
    /\ timer.state = "fired"
    /\ res = 200
    /\ outcome.err = "AbortError"

Contains(s, t) ==
    \E k \in 0..(Len(s) - Len(t)) : SubSeq(s, k + 1, k + Len(t)) = t

\* C8: after a response with a non-success status the call returns no
\* result and has issued exactly one request; once the body text is read,
\* the failure is an Error whose message holds the status code and the text.
C8_ApiError ==
    (Done /\ res # 0 /\ ~IsOk(res)) =>
        /\ outcome.kind = "error"
        /\ outcome.stores = <<>> /\ outcome.answer = <<>> /\ outcome.sources = <<>>
        /\ Len(requests) = 1
        /\ call.viaTool => toolOutcome.kind = "error" /\ toolOutcome.content = <<>>
        /\ payload.def =>
              /\ outcome.err = "Error"
              /\ Contains(outcome.msg, <<ToString(res)>>)
              /\ Contains(outcome.msg, payload.val)
              /\ SubSeq(outcome.msg, Len(outcome.msg) - Len(payload.val) + 1,
                        Len(outcome.msg)) = payload.val

C8_Witness ==
    /\ Done
    /\ res = 429
    /\ payload.def /\ payload.val # <<>>
    /\ outcome.kind = "error"
    /\ Contains(outcome.msg, <<"429">>)

\* C9: the model in the generateContent URL is the per-call model when it is
\* not blank, else the plugin configuration's defaultModel when that is not
\* blank, else DEFAULT_MODEL (each trimmed and URL-encoded).
C9_ModelPrecedence ==
    \A r \in 1..Len(requests) :
        requests[r].path = "generateContent" =>
            requests[r].model = encodeURIComponent(
                IF call.rawModel.def /\ Trim(call.rawModel.val) # <<>>
                THEN Trim(call.rawModel.val)
                ELSE IF call.pluginCfg.defaultModel.def
                        /\ Trim(call.pluginCfg.defaultModel.val) # <<>>
                THEN Trim(call.pluginCfg.defaultModel.val)
                ELSE DEFAULT_MODEL)

\* Through the tool, a per-call model was used although the plugin
\* configuration names a default.
C9_Witness ==
    /\ Len(requests) = 1
    /\ call.viaTool
    /\ call.rawModel.def /\ Trim(call.rawModel.val) # <<>>
    /\ call.pluginCfg.defaultModel.def
    /\ Trim(call.pluginCfg.defaultModel.val) # <<>>
    /\ requests[1].model = encodeURIComponent(Trim(call.rawModel.val))
    /\ requests[1].model # encodeURIComponent(Trim(call.pluginCfg.defaultModel.val))

\* C10: when the body of a successful response is parsed, listFileSearchStores
\* returns the provider's fileSearchStores as it is, and the empty sequence
\* when the field is absent.
C10_ListResult ==
    (Done /\ call.op = "list" /\ data.def) =>
        /\ outcome.kind = "ok"
        /\ data.val.fileSearchStores.def =>
              outcome.stores = data.val.fileSearchStores.val
        /\ ~data.val.fileSearchStores.def => outcome.stores = <<>>

\* Two stores came back in the provider's (not alphabetical) order.
C10_Witness ==
    /\ Done
    /\ call.op = "list"
    /\ outcome.kind = "ok"
    /\ Len(outcome.stores) = 2
    /\ outcome.stores[1].name = "fileSearchStores/def"
    /\ outcome.stores[2].name = "fileSearchStores/abc"
    /\ outcome.stores = data.val.fileSearchStores.val

\* ------------------------------------------------ response extraction runs
\* Content parts and grounding chunks in every shape the response types
\* allow: a field absent, present and empty, present and filled.
PartPool == { [text |-> Undefined], [text |-> Str(<<" ">>)], [text |-> Str(<<"a">>)] }

ChunkPool ==
    { [retrievedContext |-> NoValue] } \cup
    { Chunk(uri, title) :
        uri \in { Undefined, Str(<<>>), Str(<<"u">>) },
        title \in { Undefined, Str(<<>>), Str(<<"T">>) } }

SeqsUpTo(S, n) == UNION { [1..k -> S] : k \in 0..n }

\* Candidates that vary the parts (with no grounding metadata), and
\* candidates that vary the chunks (under a padded two-part text).
PaddedParts == Some(<< [text |-> Str(<<" ">>)], [text |-> Str(<<"a">>)] >>)

CandidatePool ==
    { [parts |-> p, groundingChunks |-> NoValue] :
        p \in { NoValue } \cup { Some(q) : q \in SeqsUpTo(PartPool, MaxParts) } }
    \cup
    { [parts |-> PaddedParts, groundingChunks |-> g] :
        g \in { NoValue } \cup { Some(q) : q \in SeqsUpTo(ChunkPool, MaxChunks) } }

RichBodies ==
    { [candidates |-> NoValue], [candidates |-> Some(<<>>)] }
    \cup { [candidates |-> Some(<<c>>)] : c \in CandidatePool }
    \cup { [candidates |-> Some(<<c, RichCandidate>>)] : c \in CandidatePool }

\* queryFileSearch called directly with one store and no configuration.
CallQueryPlain ==
    /\ pc = "idle"
    /\ call' = [NoCall EXCEPT !.op = "query", !.query = <<"q">>,
                              !.stores = <<StoreAt(1)>>]
    /\ pc' = "resolveApiKey"
    /\ UNCHANGED <<apiKey, requests, timer, aborted, res, payload, data, outcome,
                   toolOutcome>>

\* await res.json() resolves in queryFileSearch with a body of RichBodies.
JsonResolvesRich ==
    /\ pc = "json"
    /\ ~aborted
    /\ call.op = "query"
    /\ \E parsed \in RichBodies :
          /\ data' = Some(parsed)
          /\ Settle([NoOutcome EXCEPT !.kind = "ok",
                                      !.answer = ExtractAnswer(parsed),
                                      !.sources = ExtractSources(parsed)])
    /\ timer' = clear(timer)
    /\ UNCHANGED <<call, apiKey, requests, aborted, res, payload>>

NextExtract ==
    \/ CallQueryPlain
    \/ ResolveApiKeyFails
    \/ ResolveApiKeyReturns
    \/ DeadlineFires
    \/ AbortRejects
    \/ FetchResolves
    \/ FetchRejects
    \/ TextResolves
    \/ TextRejects
    \/ JsonResolvesRich
    \/ JsonRejects

SpecExtract == Init /\ [][NextExtract]_vars

\* The text of the first n parts, a part without text counting as "".
RECURSIVE TextUpTo(_, _)
TextUpTo(parts, n) ==
    IF n = 0 THEN <<>>
    ELSE TextUpTo(parts, n - 1)
         \o (IF parts[n].text.def THEN parts[n].text.val ELSE <<>>)

\* A chunk is cited when its retrieved context has a non-empty uri or title.
Cited(chunk) ==
    /\ chunk.retrievedContext.def
    /\ \/ (chunk.retrievedContext.val.uri.def
           /\ chunk.retrievedContext.val.uri.val # <<>>)
       \/ (chunk.retrievedContext.val.title.def
           /\ chunk.retrievedContext.val.title.val # <<>>)

\* C11: on a parsed successful response queryFileSearch returns a result
\* built from the first candidate only: answer is the trimmed concatenation
\* of its text parts; sources holds, in chunk order, one Source per cited
\* chunk, its title the context's title, or the uri when the title is
\* undefined, its uri the context's uri, or "" when undefined; uncited
\* chunks are dropped, every Source has a non-empty title or uri, and no
\* candidates gives the empty answer and no sources.
C11_Extraction ==
    (Done /\ call.op = "query" /\ data.def) =>
        /\ outcome.kind = "ok"
        /\ outcome.err = "" /\ outcome.msg = <<>>
        /\ LET cs == data.val.candidates
           IN  IF ~cs.def \/ cs.val = <<>>
               THEN outcome.answer = <<>> /\ outcome.sources = <<>>
               ELSE LET c == cs.val[1]
                        parts == IF c.parts.def THEN c.parts.val ELSE <<>>
                        chunks == IF c.groundingChunks.def
                                  THEN c.groundingChunks.val ELSE <<>>
                        cited == { i \in 1..Len(chunks) : Cited(chunks[i]) }
                        Rank(i) == Cardinality({ j \in cited : j <= i })
                    IN  /\ outcome.answer = Trim(TextUpTo(parts, Len(parts)))
                        /\ Len(outcome.sources) = Cardinality(cited)
                        /\ \A i \in cited :
                              LET ctx == chunks[i].retrievedContext.val
                                  src == outcome.sources[Rank(i)]
                              IN  /\ src.uri = IF ctx.uri.def THEN ctx.uri.val
                                               ELSE <<>>
                                  /\ src.title = IF ctx.title.def THEN ctx.title.val
                                                 ELSE src.uri
                        /\ \A k \in 1..Len(outcome.sources) :
                              \/ outcome.sources[k].title # <<>>
                              \/ outcome.sources[k].uri # <<>>

\* A padded answer was trimmed, an uncited chunk was dropped and the chunk
\* after it, with a uri and no title, was cited under its uri.
C11_Witness ==
    /\ Done
    /\ call.op = "query"
    /\ data.def /\ data.val.candidates.def /\ Len(data.val.candidates.val) = 2
    /\ LET c == data.val.candidates.val[1]
       IN  /\ c.parts.def /\ c.groundingChunks.def
           /\ c.parts.val = << [text |-> Str(<<" ">>)], [text |-> Str(<<"a">>)] >>
           /\ c.groundingChunks.val =
                 << Chunk(Str(<<>>), Str(<<>>)), Chunk(Str(<<"u">>), Undefined) >>
    /\ outcome.answer = <<"a">>
    /\ outcome.sources = << [title |-> <<"u">>, uri |-> <<"u">>] >>

\* C12 as stated: whatever the plugin configuration (maxStoresPerQuery 0 or
\* negative included), the cap queryFileSearch applies to the store list is
\* an integer from 1 to MAX_STORES_HARD_LIMIT.
C12_CapRange ==
    (call.op = "query" /\ apiKey # <<>>) =>
        EffectiveMaxStores(call.pluginCfg) \in 1..MAX_STORES_HARD_LIMIT
====
